---- MODULE Spec2Model ----
(***************************************************************************)
(* A model of the SoSoValue ETF notifiers:                                 *)
(*   sosovalue_api_etf_flow.py   (daily flow sentry: quota, dedup, fetch,  *)
(*                                normalizer, embed assembly, delivery)    *)
(*   sosovalue_etf_cum_chart.py  (cumulative chart: confirmation gate)     *)
(* Dates are day numbers, an optional value is <<>> (None) or <<v>>, a     *)
(* month bucket is a day number divided by DaysPerMonth, and amounts are   *)
(* integers.                                                               *)
(***************************************************************************)
EXTENDS Integers, Sequences, FiniteSets, TLC

\* ---------------------------------------------------------------- bounds
MaxDay == 2
DaysPerMonth == 2
MaxChartDay == 2
MaxRows == 2
MaxGroups == 3

MaxFlows == 3

\* ------------------------------------------------------------- constants
MAX_CALLS_PER_MONTH == 3
max_retries == 3
chart_max_retries == 3
backoff0 == 2
SHOW_TOP_N == 24

\* ------------------------------------------------------------ primitives
None == <<>>

Some(x) == <<x>>

Min(a, b) == IF a <= b THEN a ELSE b

Max(a, b) == IF a >= b THEN a ELSE b

Abs(x) == IF x < 0 THEN 0 - x ELSE x

Map(f(_), s) == [i \in 1..Len(s) |-> f(s[i])]

RECURSIVE SumNet(_)
SumNet(s) == IF s = <<>> THEN 0 ELSE s[1].net + SumNet(Tail(s))

Assets == {"BTC", "ETH"}

\* ----------------------------------------------------------------- state
\* The flow sentry (sosovalue_api_etf_flow.py, main):
VARIABLES
    cfg,        \* environment of the process: SEND_ETH, SOSO_FUNDS_API, credentials, FORCE_SEND
    today,      \* the day number of "now"
    file,       \* sosovalue_state.json
    upstream,   \* per asset: what currentEtfDataMetrics answers today and the history's
                \* latest date, None until a run of the day has seen the answer
    pc,         \* position of main()
    state,      \* main's in-memory state dict
    startFile,  \* the file as it was when the run started
    embeds,     \* main's embeds list: <<asset, embed>>
    cand,       \* per asset: <<dt>> once run_one has returned the dedup date dt
    call,       \* the upstream call in progress or last ended
    calls,      \* upstream calls (fetch_metrics invocations) issued by this run
    requests,   \* HTTP requests issued upstream by this run
    warnings,   \* warning messages posted to the webhook by this run
    sent,       \* embeds delivered to the webhook by this run
    exit,       \* process exit status: <<>> while running
    prev        \* what the previous run tried to deliver when its delivery failed

flowVars == <<cfg, today, file, upstream, pc, state, startFile, embeds, cand, call,
              calls, requests, warnings, sent, exit, prev>>

\* The chart script (sosovalue_etf_cum_chart.py):
VARIABLES
    cYday,      \* yesterday (JST), the target date
    cSendEth,   \* SEND_ETH
    cHist,      \* per asset: the rows the history endpoint holds
    cRes        \* what the run did: <<>> before it ran

chartVars == <<cYday, cSendEth, cHist, cRes>>

\* The normalizer, pick_series, on one payload:
VARIABLES
    pPayload,   \* the payload handed to pick_series
    pSeries     \* <<series>> once pick_series has returned

pickVars == <<pPayload, pSeries>>

\* build_embed on one flow list:
VARIABLES
    eFlows,     \* the flows handed to build_embed
    eTopN,      \* SHOW_TOP_N
    eEmbed      \* <<embed>> once build_embed has returned

embedVars == <<eFlows, eTopN, eEmbed>>

\* What a run does with one HTTP 200 payload, in either script:
VARIABLES
    mPayload,   \* the JSON value r.json() returned
    mYday,      \* yesterday (JST), as a day of March 2024
    mRes        \* <<result>> once the run has parsed the payload

parseVars == <<mPayload, mYday, mRes>>

vars == <<flowVars, chartVars, pickVars, embedVars, parseVars>>

\* A script that is not the one running holds nothing.
FlowIdle ==
    /\ cfg = <<>> /\ today = 0 /\ file = <<>> /\ upstream = <<>> /\ pc = "off"
    /\ state = <<>> /\ startFile = <<>> /\ embeds = <<>> /\ cand = <<>> /\ call = <<>>
    /\ calls = 0 /\ requests = 0 /\ warnings = 0 /\ sent = <<>> /\ exit = <<>> /\ prev = <<>>

ChartIdle == cYday = 0 /\ cSendEth = FALSE /\ cHist = <<>> /\ cRes = <<>>

PickIdle == pPayload = <<>> /\ pSeries = <<>>

EmbedIdle == eFlows = <<>> /\ eTopN = 0 /\ eEmbed = <<>>

ParseIdle == mPayload = <<>> /\ mYday = 0 /\ mRes = <<>>

\* ========================================================================
\* sosovalue_api_etf_flow.py
\* ========================================================================

\* The persisted state blob; {} when the file is missing or unreadable.
EmptyState == [monthly_calls |-> [m \in {} |-> 0], last_btc_day |-> None, last_eth_day |-> None]

load_state(f) == IF f = None THEN EmptyState ELSE f[1]

save_state(d) == Some(d)

_ym_utc(day) == day \div DaysPerMonth

jst_yesterday_date(day) == day - 1

monthly_get(st, ym) == IF ym \in DOMAIN st.monthly_calls THEN st.monthly_calls[ym] ELSE 0

can_use_api_lt(st, needed, ym) == monthly_get(st, ym) + needed < MAX_CALLS_PER_MONTH

can_use_api(st, needed, ym) == monthly_get(st, ym) + needed <= MAX_CALLS_PER_MONTH

add_api_calls_only(st, used, ym) ==
    [st EXCEPT !.monthly_calls = [k \in {ym} |-> monthly_get(st, ym) + used]]

add_api_calls(st, used, ym) ==
    [st EXCEPT !.monthly_calls =
        [k \in (DOMAIN st.monthly_calls) \cup {ym} |->
            IF k = ym THEN monthly_get(st, ym) + used ELSE st.monthly_calls[k]]]

\* sorted(flows, key=abs(net), reverse=True): stable, descending.
InsertByAbs(s, x) ==
    LET k == Cardinality({i \in 1..Len(s) : Abs(s[i].net) >= Abs(x.net)})
    IN  SubSeq(s, 1, k) \o <<x>> \o SubSeq(s, k + 1, Len(s))

RECURSIVE SortByAbs(_, _)
SortByAbs(done, rest) ==
    IF rest = <<>> THEN done ELSE SortByAbs(InsertByAbs(done, rest[1]), Tail(rest))

\* s[:n]
Slice(s, n) ==
    IF n >= 0 THEN SubSeq(s, 1, Min(n, Len(s))) ELSE SubSeq(s, 1, Max(0, Len(s) + n))

Mark(v) == IF v > 0 THEN "green" ELSE IF v < 0 THEN "red" ELSE "white"

Color(net) == IF net > 0 THEN "2ecc71" ELSE IF net < 0 THEN "e74c3c" ELSE "95a5a6"

Field(r) == [name |-> r.name, value |-> r.net, mark |-> Mark(r.net)]

NonZero(r) == r.net # 0

build_embed_nonzero(title, flows, top_n) ==
    LET flows_sorted == Slice(SortByAbs(<<>>, SelectSeq(flows, NonZero)), top_n)
        net == SumNet(flows)
    IN  [title |-> title, color |-> Color(net), fields |-> Map(Field, flows_sorted), net |-> net]

build_embed(title, flows, top_n) ==
    LET flows_sorted == Slice(SortByAbs(<<>>, flows), top_n)
        net == SumNet(flows)
    IN  [title |-> title, color |-> Color(net), fields |-> Map(Field, flows_sorted), net |-> net]

\* A currentEtfDataMetrics payload: data.list (per-fund records) and
\* data.dailyNetInflow (lastUpdateDate, value in USD).
FundRec(r) == [name |-> r.ticker, net |-> r.value]

Reflected(r) == r.status # 3

parse_funds_from_metrics(payload) == Map(FundRec, SelectSeq(payload.list, Reflected))

parse_aggregate_from_metrics(payload) ==
    [day |-> payload.lastUpdateDate,
     net_musd |-> IF payload.value = None THEN 0 ELSE payload.value[1] \div 1000000]

ToMusd(it) == [name |-> it.name, net |-> it.net \div 1000000]

\* run_one after the payload has arrived: (embed, used_calls, dedup_date).
run_one(payload, tag, yday, force, top_n) ==
    LET items == parse_funds_from_metrics(payload)
        agg == parse_aggregate_from_metrics(payload)
    IN  IF items # <<>>
        THEN [emb |-> Some(build_embed([day |-> yday, tag |-> tag, aggregate |-> FALSE],
                                       Map(ToMusd, items), top_n)),
              used |-> 1, dt |-> Some(yday)]
        ELSE IF agg.day = Some(yday) \/ force
        THEN LET target_day == IF agg.day # None THEN agg.day[1] ELSE yday
             IN  [emb |-> Some(build_embed([day |-> target_day, tag |-> tag, aggregate |-> TRUE],
                                           <<[name |-> "Total", net |-> agg.net_musd]>>, top_n)),
                  used |-> 1, dt |-> Some(target_day)]
        ELSE [emb |-> None, used |-> 1, dt |-> None]

Retryable == {429, 500, 502, 503, 504}

Statuses == {200, 404, 429, 501, 503}

\* requests' raise_for_status raises for 4xx and 5xx only.
Raises(status) == status >= 400

Funds == {<<>>,
          <<[ticker |-> "IBIT", status |-> 3, value |-> 5000000]>>,
          <<[ticker |-> "IBIT", status |-> 1, value |-> 5000000],
            [ticker |-> "FBTC", status |-> 1, value |-> 0 - 3000000]>>}

\* What the endpoint may answer when yesterday is `day`: no per-fund list (v1) with
\* the aggregate missing, a day behind or up to date, or a per-fund list (v2).
Payloads(day) ==
    { [list |-> <<>>, lastUpdateDate |-> d, value |-> Some(7000000)] :
        d \in {None, Some(day - 1), Some(day)} }
    \cup { [list |-> l, lastUpdateDate |-> Some(day), value |-> None] : l \in Funds \ {<<>>} }

NoCall == [asset |-> "", v2 |-> FALSE, attempts |-> 0, sleeps |-> <<>>, backoff |-> backoff0,
           status |-> 0, ended |-> ""]

Configs == [send_eth : BOOLEAN, funds_api : BOOLEAN, is_v2 : BOOLEAN, force : BOOLEAN]

\* The history endpoint's latest date is `day` only once the aggregate for `day`
\* is final; until then it is a day behind whatever the current metrics say.
Upstreams(day) ==
    { [metrics |-> p, hist |-> day - 1] : p \in Payloads(day) }
    \cup { [metrics |-> p, hist |-> day] :
             p \in {q \in Payloads(day) : q.list = <<>> /\ q.lastUpdateDate = Some(day)} }

FlowInit ==
    /\ cfg \in Configs
    /\ today = 1
    /\ file \in {None} \cup
         { Some([EmptyState EXCEPT !.monthly_calls = [m \in {_ym_utc(1)} |-> c]]) :
             c \in 0..MAX_CALLS_PER_MONTH }
    /\ upstream = [a \in Assets |-> None]
    /\ pc = "idle"
    /\ state = EmptyState
    /\ startFile = file
    /\ embeds = <<>>
    /\ cand = [a \in Assets |-> None]
    /\ call = NoCall
    /\ calls = 0
    /\ requests = 0
    /\ warnings = 0
    /\ sent = <<>>
    /\ exit = None
    /\ prev = None
    /\ ChartIdle /\ PickIdle /\ EmbedIdle /\ ParseIdle

needed(c) == (IF c.funds_api THEN 2 ELSE 1) * (1 + (IF c.send_eth THEN 1 ELSE 0))

\* main, lines 299-320: load the state, estimate the worst case, check the quota.
StartRun ==
    /\ pc = "idle"
    /\ startFile' = file
    /\ state' = load_state(file)
    /\ IF can_use_api(load_state(file), needed(cfg), _ym_utc(today))
       THEN /\ pc' = "BTC"
            /\ call' = [NoCall EXCEPT !.asset = "BTC", !.v2 = cfg.is_v2]
            /\ UNCHANGED <<warnings, exit>>
       ELSE /\ pc' = "skipped"
            /\ warnings' = warnings + 1
            /\ exit' = Some(0)
            /\ UNCHANGED call
    /\ UNCHANGED <<cfg, today, file, upstream, embeds, cand, calls, requests, sent, prev>>
    /\ UNCHANGED <<chartVars, pickVars, embedVars, parseVars>>

NextPc(a) == IF a = "BTC" /\ cfg.send_eth THEN "ETH" ELSE "deliver"

last_day(st, a) == IF a = "BTC" THEN st.last_btc_day ELSE st.last_eth_day

set_last_day(st, a, dt) ==
    IF a = "BTC" THEN [st EXCEPT !.last_btc_day = dt] ELSE [st EXCEPT !.last_eth_day = dt]

\* main, lines 325 and 334: an embed is queued unless its date is the stored one.
should_notify_always(st, a, r) == r.emb # None

should_notify(st, a, r) == r.emb # None /\ last_day(st, a) # r.dt

\* One HTTP request of fetch_metrics. With the client-id pair (v2) the request
\* is sent once (lines 223-225); otherwise post_json loops (lines 81-96).
Request(a, status) ==
    /\ pc = a
    /\ status \in Statuses
    /\ requests' = requests + 1
    /\ calls' = IF call.attempts = 0 THEN calls + 1 ELSE calls

\* The payload arrived: the rest of run_one, then main's bookkeeping and dedup.
FetchOk ==
    \E a \in Assets, up \in Upstreams(jst_yesterday_date(today)) :
        /\ Request(a, 200)
        /\ upstream[a] \in {None, Some(up)}
        /\ upstream' = [upstream EXCEPT ![a] = Some(up)]
        /\ LET r == run_one(up.metrics, a, jst_yesterday_date(today), cfg.force, SHOW_TOP_N)
               st1 == add_api_calls(state, r.used, _ym_utc(today))
               fresh == should_notify(st1, a, r)
           IN  /\ cand' = [cand EXCEPT ![a] = Some(r.dt)]
               /\ embeds' = IF fresh THEN Append(embeds, <<a, r.emb[1]>>) ELSE embeds
               /\ state' = IF fresh THEN set_last_day(st1, a, r.dt) ELSE st1
        /\ call' = IF NextPc(a) = "ETH"
                   THEN [NoCall EXCEPT !.asset = "ETH", !.v2 = cfg.is_v2]
                   ELSE [call EXCEPT !.attempts = @ + 1, !.status = 200, !.ended = "ok"]
        /\ pc' = NextPc(a)
        /\ UNCHANGED <<cfg, today, file, startFile, warnings, sent, exit, prev>>
        /\ UNCHANGED <<chartVars, pickVars, embedVars, parseVars>>

\* post_json, lines 93-95: sleep, double the backoff, try again.
FetchRetry ==
    \E a \in Assets, status \in Retryable \cap Statuses :
        /\ Request(a, status)
        /\ ~call.v2
        /\ call.attempts + 1 < max_retries
        /\ call' = [call EXCEPT !.attempts = @ + 1, !.status = status,
                                !.sleeps = Append(@, call.backoff), !.backoff = @ * 2]
        /\ UNCHANGED <<cfg, today, file, upstream, pc, state, startFile, embeds, cand,
                       warnings, sent, exit, prev>>
        /\ UNCHANGED <<chartVars, pickVars, embedVars, parseVars>>

\* raise_for_status (line 96, line 224): the exception reaches __main__, exit 1.
FetchFatal ==
    \E a \in Assets, status \in Statuses :
        /\ Request(a, status)
        /\ Raises(status)
        /\ call.v2 \/ ~(status \in Retryable /\ call.attempts + 1 < max_retries)
        /\ call' = [call EXCEPT !.attempts = @ + 1, !.status = status, !.ended = "fatal"]
        /\ pc' = "failed"
        /\ exit' = Some(1)
        /\ UNCHANGED <<cfg, today, file, upstream, state, startFile, embeds, cand,
                       warnings, sent, prev>>
        /\ UNCHANGED <<chartVars, pickVars, embedVars, parseVars>>

\* main, lines 338-345: post the embeds, then save the state.
DeliverOk ==
    /\ pc = "deliver"
    /\ embeds # <<>>
    /\ sent' = embeds
    /\ file' = save_state(state)
    /\ pc' = "done"
    /\ exit' = Some(0)
    /\ UNCHANGED <<cfg, today, upstream, state, startFile, embeds, cand, call, calls,
                   requests, warnings, prev>>
    /\ UNCHANGED <<chartVars, pickVars, embedVars, parseVars>>

DeliverFail_saves ==
    /\ pc = "deliver"
    /\ embeds # <<>>
    /\ file' = save_state(state)
    /\ pc' = "undelivered"
    /\ exit' = Some(1)
    /\ UNCHANGED <<cfg, today, upstream, state, startFile, embeds, cand, call, calls,
                   requests, warnings, sent, prev>>
    /\ UNCHANGED <<chartVars, pickVars, embedVars, parseVars>>

\* The webhook answers 4xx/5xx or the POST itself raises: main never reaches save_state.
DeliverFail ==
    /\ pc = "deliver"
    /\ embeds # <<>>
    /\ pc' = "undelivered"
    /\ exit' = Some(1)
    /\ UNCHANGED <<cfg, today, file, upstream, state, startFile, embeds, cand, call, calls,
                   requests, warnings, sent, prev>>
    /\ UNCHANGED <<chartVars, pickVars, embedVars, parseVars>>

\* Nothing to send: the state is saved all the same.
SaveOnly ==
    /\ pc = "deliver"
    /\ embeds = <<>>
    /\ file' = save_state(state)
    /\ pc' = "done"
    /\ exit' = Some(0)
    /\ UNCHANGED <<cfg, today, upstream, state, startFile, embeds, cand, call, calls,
                   requests, warnings, sent, prev>>
    /\ UNCHANGED <<chartVars, pickVars, embedVars, parseVars>>

Finished == pc \in {"done", "failed", "undelivered", "skipped"}

Reset ==
    /\ pc' = "idle"
    /\ state' = EmptyState
    /\ startFile' = file
    /\ embeds' = <<>>
    /\ cand' = [a \in Assets |-> None]
    /\ call' = NoCall
    /\ calls' = 0
    /\ requests' = 0
    /\ warnings' = 0
    /\ sent' = <<>>
    /\ exit' = None

\* The scheduler starts the next run at once: same day, same upstream data.
RunAgain ==
    /\ Finished
    /\ Reset
    /\ prev' = IF pc = "undelivered" THEN Some(embeds) ELSE None
    /\ UNCHANGED <<cfg, today, file, upstream>>
    /\ UNCHANGED <<chartVars, pickVars, embedVars, parseVars>>

\* The next run is a day later and the upstream has moved on.
NextDay ==
    /\ Finished
    /\ today < MaxDay
    /\ Reset
    /\ today' = today + 1
    /\ upstream' = [a \in Assets |-> None]
    /\ prev' = None
    /\ UNCHANGED <<cfg, file>>
    /\ UNCHANGED <<chartVars, pickVars, embedVars, parseVars>>

FlowNext ==
    \/ StartRun
    \/ FetchOk
    \/ FetchRetry
    \/ FetchFatal
    \/ DeliverOk
    \/ DeliverFail
    \/ SaveOnly
    \/ RunAgain
    \/ NextDay

SpecFlow == FlowInit /\ [][FlowNext]_vars

\* ------------------------------------------------------------------------
\* Claims about the flow sentry (SpecFlow)
\* ------------------------------------------------------------------------
Started == pc # "idle"

UsedAtStart == monthly_get(load_state(startFile), _ym_utc(today))

StoredAtStart(a) == last_day(load_state(startFile), a)

SentFor(a) == \E i \in 1..Len(sent) : sent[i][1] = a

\* run_one returned an embed for the asset, with this dedup date.
HasCandidate(a) == cand[a] # None /\ cand[a][1] # None

Candidate(a) == cand[a][1]

\* C1: the quota check fails exactly when calls_used[current month] + needed exceeds
\* the ceiling; a run in which it fails issues no upstream call, posts exactly one
\* warning and delivers no data notification.
C1_QuotaGate ==
    /\ Started => (pc = "skipped" <=> UsedAtStart + needed(cfg) > MAX_CALLS_PER_MONTH)
    /\ pc = "skipped" => calls = 0 /\ requests = 0 /\ warnings = 1 /\ sent = <<>>
    /\ pc # "skipped" => warnings = 0

C1_Witness ==
    /\ pc = "skipped"
    /\ UsedAtStart + needed(cfg) = MAX_CALLS_PER_MONTH + 1
    /\ warnings = 1

C3_Original ==
    \A a \in Assets :
        (Finished /\ HasCandidate(a)) =>
            IF Candidate(a) = StoredAtStart(a)
            THEN ~SentFor(a)
            ELSE SentFor(a) /\ last_day(load_state(file), a) = Candidate(a)

\* C3: a run whose candidate date for an asset equals the stored last-notified date
\* never sends a data notification for that asset; a run whose candidate date differs
\* sends it and stores the new date when the run completes (pc = "done"), and sends
\* nothing and leaves the file untouched when a later upstream call or the delivery
\* fails.
C3_Dedup ==
    \A a \in Assets :
        HasCandidate(a) =>
            /\ Candidate(a) = StoredAtStart(a) => ~SentFor(a)
            /\ (Candidate(a) # StoredAtStart(a) /\ pc = "done") =>
                   SentFor(a) /\ last_day(load_state(file), a) = Candidate(a)
            /\ pc \in {"failed", "undelivered"} => ~SentFor(a) /\ file = startFile

C3_Witness ==
    /\ pc = "done"
    /\ HasCandidate("BTC") /\ Candidate("BTC") = StoredAtStart("BTC") /\ ~SentFor("BTC")
    /\ HasCandidate("ETH") /\ Candidate("ETH") # StoredAtStart("ETH")
    /\ SentFor("ETH")

\* C4 as claimed: after any run the persisted counter of the month has grown by the
\* number of upstream calls the run issued, failed calls included.
C4_Original ==
    Finished => monthly_get(load_state(file), _ym_utc(today)) = UsedAtStart + calls

\* C5 as claimed: in both credential modes a failed call that ended on 429 or 5xx
\* used every attempt with doubling delays, and one that ended on another status
\* made a single request.
C5_Original ==
    call.ended = "fatal" =>
        /\ call.attempts <= max_retries
        /\ IF call.status = 429 \/ call.status \in 500..599
           THEN /\ call.attempts = max_retries
                /\ \A i \in 1..Len(call.sleeps) :
                       call.sleeps[i] = (IF i = 1 THEN backoff0 ELSE 2 * call.sleeps[i - 1])
                /\ Len(call.sleeps) = max_retries - 1
           ELSE call.attempts = 1

\* C6 as claimed: with FORCE_SEND off, no delivered data notification is for a day
\* newer than the latest date of the asset's history series.
C6_Original ==
    ~cfg.force =>
        \A i \in 1..Len(sent) :
            upstream[sent[i][1]] # None =>
                sent[i][2].title.day <= upstream[sent[i][1]][1].hist

Persisted(f, ym) == monthly_get(load_state(f), ym)

\* C13: across every step of serialized runs, the persisted counter of the current
\* UTC month stays at or below MAX_CALLS_PER_MONTH, does not decrease while the month
\* lasts, and the counters of earlier months stay in the file with their values.
C13_MonthlyCounter ==
    [][ /\ Persisted(file', _ym_utc(today')) <= MAX_CALLS_PER_MONTH
        /\ _ym_utc(today') = _ym_utc(today) =>
               Persisted(file', _ym_utc(today)) >= Persisted(file, _ym_utc(today))
        /\ \A m \in DOMAIN load_state(file).monthly_calls :
               m < _ym_utc(today') =>
                   /\ m \in DOMAIN load_state(file').monthly_calls
                   /\ load_state(file').monthly_calls[m] = load_state(file).monthly_calls[m]
      ]_vars

\* A run of a later month brought its counter to the ceiling, from below, while the
\* file holds calls counted in the month before.
C13_Witness ==
    /\ pc = "done"
    /\ _ym_utc(today) > _ym_utc(1)
    /\ Persisted(file, _ym_utc(today)) = MAX_CALLS_PER_MONTH
    /\ UsedAtStart < MAX_CALLS_PER_MONTH
    /\ Persisted(file, _ym_utc(1)) > 0

\* ========================================================================
\* sosovalue_etf_cum_chart.py
\* ========================================================================
\* Two revisions of the run live in the file: main() (lines 260-293), gated by
\* is_confirmed_yday, and the block of lines 212-255, written to stand at the head
\* of main, which checks each asset and falls back to a stale date.

ChartDays == 1..MaxChartDay

\* A row of historicalInflowChart: a full row, or one whose cumNetInflow is missing.
HistRow(d, full) ==
    [date |-> d, cumNetInflow |-> IF full THEN Some(10 * d) ELSE None, totalNetInflow |-> Some(d)]

RECURSIVE HistoriesOver(_, _)
HistoriesOver(days, n) ==
    IF n = 0 \/ days = {} THEN {<<>>}
    ELSE {<<>>} \cup
         UNION { { <<HistRow(d, full)>> \o h : h \in HistoriesOver(days \ {d}, n - 1) } :
                   d \in days, full \in BOOLEAN }

\* The series of one asset: at most MaxRows rows, one per date, in any order.
Histories == HistoriesOver(ChartDays, MaxRows)

HistKeys == {"list", "records", "items", "rows"}

\* The shapes the history payload comes in: a bare list, {"data": [...]},
\* {"data": {key: [...]}} and {key: [...]}.
Shapes == { [kind |-> "data_list", key |-> ""], [kind |-> "data_dict", key |-> "list"],
            [kind |-> "data_dict", key |-> "series"], [kind |-> "top", key |-> "rows"] }

_extract_list(payload) ==
    CASE payload.kind = "list" -> payload.rows
      [] payload.kind = "data_list" -> payload.rows
      [] payload.kind = "data_dict" /\ payload.key \in HistKeys -> payload.rows
      [] payload.kind = "top" /\ payload.key \in HistKeys -> payload.rows
      [] OTHER -> <<>>

\* What the upstream answers to the attempts of one post_json call.
NetAnswers == { <<200, 200, 200>>, <<503, 200, 200>>, <<503, 503, 503>>, <<404, 200, 200>> }

\* post_json of the chart script, from attempt i (0-based): "ok" or the exception.
RECURSIVE chart_post_json(_, _)
chart_post_json(answers, i) ==
    IF i >= chart_max_retries THEN "RuntimeError"
    ELSE IF answers[i + 1] = 200 THEN "ok"
    ELSE IF answers[i + 1] \in Retryable /\ i < chart_max_retries - 1
    THEN chart_post_json(answers, i + 1)
    ELSE IF Raises(answers[i + 1]) THEN "HTTPError"
    ELSE chart_post_json(answers, i + 1)

MaxOf(S) == CHOOSE x \in S : \A y \in S : y <= x

RowDates(lst) == { lst[i].date : i \in 1..Len(lst) }

\* _last_hist_date / last_hist_date: the newest date of the list, None without rows.
last_hist_date(payload) ==
    LET ds == RowDates(_extract_list(payload))
    IN  IF ds = {} THEN None ELSE Some(MaxOf(ds))

\* sorted(zip(dates, cum_b, daily_b), key=date): stable, ascending.
InsertByDate(s, x) ==
    LET k == Cardinality({i \in 1..Len(s) : s[i].date <= x.date})
    IN  SubSeq(s, 1, k) \o <<x>> \o SubSeq(s, k + 1, Len(s))

RECURSIVE SortByDate(_, _)
SortByDate(done, rest) ==
    IF rest = <<>> THEN done ELSE SortByDate(InsertByDate(done, rest[1]), Tail(rest))

FullRow(row) == row.cumNetInflow # None /\ row.totalNetInflow # None

HistPoint(row) == [date |-> row.date, cum |-> row.cumNetInflow[1], day |-> row.totalNetInflow[1]]

fetch_history(payload) ==
    SortByDate(<<>>, Map(HistPoint, SelectSeq(_extract_list(payload), FullRow)))

is_confirmed_yday(ld_btc, ld_eth, yday) ==
    LET candidates == { d[1] : d \in {ld_btc, ld_eth} \ {None} }
    IN  IF candidates = {} THEN [confirmed |-> FALSE, latest |-> None]
        ELSE [confirmed |-> MaxOf(candidates) >= yday, latest |-> Some(MaxOf(candidates))]

\* send_to_discord builds its content from extra_note, which is neither a parameter
\* nor a global: called as main calls it, it raises NameError before the POST;
\* called with extra_note=..., as the block calls it, the call itself is a TypeError.
send_to_discord(with_extra_note) == IF with_extra_note THEN "TypeError" ELSE "NameError"

Last(s) == s[Len(s)]

NoNote == [a \in Assets |-> None]

ChartResult(variant, outcome, exc, confirmed, last, sendCall) ==
    [variant |-> variant, outcome |-> outcome, exc |-> exc, confirmed |-> confirmed,
     last |-> last, sendCall |-> sendCall, posted |-> FALSE,
     exit |-> IF outcome = "raised" THEN 1 ELSE 0]

\* main(), lines 260-293.
chart_main(yday, send_eth, payload, answers) ==
    IF chart_post_json(answers, 0) # "ok"
    THEN ChartResult("main", "raised", chart_post_json(answers, 0), NoNote, NoNote, None)
    ELSE
    LET ld_btc == last_hist_date(payload["BTC"])
        ld_eth == IF send_eth THEN last_hist_date(payload["ETH"]) ELSE None
        last == [a \in Assets |-> IF a = "BTC" THEN ld_btc ELSE ld_eth]
        c == is_confirmed_yday(ld_btc, ld_eth, yday)
        conf == [a \in Assets |-> Some(c.confirmed)]
        btc == fetch_history(payload["BTC"])
        eth == fetch_history(payload["ETH"])
    IN  IF ~c.confirmed THEN ChartResult("main", "skip", "", conf, last, None)
        ELSE IF btc = <<>> \/ eth = <<>>
        THEN ChartResult("main", "raised", "IndexError", conf, last, None)
        ELSE ChartResult("main", "raised", send_to_discord(FALSE), conf, last,
                 Some([last_date |-> Max(Last(btc).date, Last(eth).date),
                       cum |-> [a \in Assets |-> IF a = "BTC" THEN Last(btc).cum ELSE Last(eth).cum],
                       note |-> NoNote]))

\* pick_at, lines 231-233: the value at the target date, else the last one, else None.
pick_at(points, target) ==
    LET hit == { i \in 1..Len(points) : target # None /\ points[i].date = target[1] }
    IN  IF hit # {} THEN Some(points[CHOOSE i \in hit : \A j \in hit : i <= j].cum)
        ELSE IF points # <<>> THEN Some(Last(points).cum) ELSE None

\* lines 235-236: the asset's own latest date when it is not after yday.
pick_target(last, yday, points) ==
    IF last # None /\ last[1] <= yday THEN last
    ELSE IF points # <<>> THEN Some(Last(points).date) ELSE None

\* lines 244-245.
stale_tag(target, yday) == ~(target # None /\ target[1] = yday)

\* The block of lines 212-255.
chart_block(yday, send_eth, payload, answers) ==
    IF chart_post_json(answers, 0) # "ok"
    THEN ChartResult("block", "raised", chart_post_json(answers, 0), NoNote, NoNote, None)
    ELSE
    LET last_btc == last_hist_date(payload["BTC"])
        last_eth == IF send_eth THEN last_hist_date(payload["ETH"]) ELSE None
        last == [a \in Assets |-> IF a = "BTC" THEN last_btc ELSE last_eth]
        confirmed == [a \in Assets |-> last[a] # None /\ last[a][1] >= yday]
        conf == [a \in Assets |-> Some(confirmed[a])]
        points == [a \in Assets |-> fetch_history(payload[a])]
        target == [a \in Assets |-> pick_target(last[a], yday, points[a])]
        targets == { target[a][1] : a \in { b \in Assets : target[b] # None } }
    IN  IF ~(confirmed["BTC"] \/ confirmed["ETH"])
        THEN ChartResult("block", "skip", "", conf, last, None)
        ELSE IF targets = {}
        THEN ChartResult("block", "raised", "ValueError", conf, last, None)
        ELSE ChartResult("block", "raised", send_to_discord(TRUE), conf, last,
                 Some([last_date |-> MaxOf(targets),
                       cum |-> [a \in Assets |->
                                  IF pick_at(points[a], target[a]) = None THEN 0
                                  ELSE pick_at(points[a], target[a])[1]],
                       note |-> [a \in Assets |->
                                  Some([target |-> target[a],
                                        stale |-> stale_tag(target[a], yday)])]]))

ChartInit ==
    /\ cYday \in ChartDays
    /\ cSendEth \in BOOLEAN
    /\ cHist \in [Assets -> Histories]
    /\ cRes = None
    /\ FlowIdle /\ PickIdle /\ EmbedIdle /\ ParseIdle

Wrap(shape) == [a \in Assets |-> [kind |-> shape.kind, key |-> shape.key, rows |-> cHist[a]]]

ChartMain ==
    \E shape \in Shapes, answers \in NetAnswers :
        /\ cRes = None
        /\ cRes' = Some(chart_main(cYday, cSendEth, Wrap(shape), answers))
        /\ UNCHANGED <<cYday, cSendEth, cHist>>
        /\ UNCHANGED <<flowVars, pickVars, embedVars, parseVars>>

ChartBlock ==
    \E shape \in Shapes, answers \in NetAnswers :
        /\ cRes = None
        /\ cRes' = Some(chart_block(cYday, cSendEth, Wrap(shape), answers))
        /\ UNCHANGED <<cYday, cSendEth, cHist>>
        /\ UNCHANGED <<flowVars, pickVars, embedVars, parseVars>>

ChartNext ==
    \/ ChartMain
    \/ ChartBlock

SpecChart == ChartInit /\ [][ChartNext]_vars

\* ------------------------------------------------------------------------
\* Claims about the chart script (SpecChart)
\* ------------------------------------------------------------------------
ChartRan == cRes # None

\* The history endpoint answered the run's calls.
Answered == cRes[1].exc \notin {"HTTPError", "RuntimeError"}

Tracked == IF cSendEth THEN Assets ELSE {"BTC"}

Older(a) == cRes[1].last[a] # None /\ cRes[1].last[a][1] < cYday

AssetConfirmed(a) == cRes[1].last[a] # None /\ cRes[1].last[a][1] >= cYday

AnyConfirmed == \E a \in Tracked : AssetConfirmed(a)

\* C7 as claimed: a run proceeds to delivery when at least one tracked asset's latest
\* history date confirms the target date, and otherwise sends nothing and ends
\* without error.
C7_Original ==
    (ChartRan /\ Answered) =>
        IF AnyConfirmed
        THEN cRes[1].sendCall # None
        ELSE cRes[1].sendCall = None /\ cRes[1].outcome = "skip" /\ cRes[1].exit = 0

\* C8 as claimed: an asset whose latest history date is older than the target date is
\* reported as not confirmed and the run reports that latest date, tagged stale.
C8_Original ==
    (ChartRan /\ Answered) =>
        \A a \in Tracked :
            Older(a) =>
                /\ cRes[1].confirmed[a] = Some(FALSE)
                /\ cRes[1].sendCall # None
                /\ cRes[1].sendCall[1].note[a] = Some([target |-> cRes[1].last[a], stale |-> TRUE])

\* ========================================================================
\* sosovalue_api_etf_flow.py: pick_series, the payload normalizer
\* ========================================================================
\* A JSON value is <<t, v>>: "null", "num" (v an integer), "str" (v a string),
\* "list" (v a sequence of values), "dict" (v a sequence of <<key, value>>, in
\* insertion order). A date is the day of March 2024.

Null == <<"null", <<>>>>

Num(n) == <<"num", n>>

Str(x) == <<"str", x>>

List(xs) == <<"list", xs>>

Dict(kvs) == <<"dict", kvs>>

HasKey(d, k) == \E i \in 1..Len(d[2]) : d[2][i][1] = k

Get(d, k) == d[2][CHOOSE i \in 1..Len(d[2]) : d[2][i][1] = k][2]

DATE_KEYS == <<"date", "tradingDay", "day", "statDate", "dateStr", "date_time">>

ITEM_KEYS == <<"items", "funds", "etfs", "records", "list", "rows", "data">>

NAME_KEYS == <<"ticker", "fund", "name", "etf", "symbol">>

NET_KEYS == <<"net", "netFlow", "net_flow", "netUsd", "flow", "net_usd">>

INFLOW_KEYS == <<"inflow", "inFlowUsd", "spotInflow">>

OUTFLOW_KEYS == <<"outflow", "outFlowUsd", "spotOutflow">>

\* next((d[k] for k in keys if k in d), None), as <<value>> or None.
RECURSIVE FirstPresent(_, _)
FirstPresent(d, keys) ==
    IF keys = <<>> THEN None
    ELSE IF HasKey(d, keys[1]) THEN Some(Get(d, keys[1]))
    ELSE FirstPresent(d, Tail(keys))

\* next((d[k] for k in keys if k in d and isinstance(d[k], list)), None)
RECURSIVE FirstList(_, _)
FirstList(d, keys) ==
    IF keys = <<>> THEN None
    ELSE IF HasKey(d, keys[1]) /\ Get(d, keys[1])[1] = "list" THEN Some(Get(d, keys[1]))
    ELSE FirstList(d, Tail(keys))

\* datetime.strptime(norm(s), fmt) for "%Y-%m-%d", "%Y/%m/%d", "%d %b %Y" in turn.
to_date(x) ==
    IF x[1] # "str" THEN None
    ELSE CASE x[2] \in {"2024-03-13", "2024/03/13", "13 Mar 2024", " 2024-03-13 "} -> Some(13)
           [] x[2] \in {"2024-03-14", "2024/03/14", "14 Mar 2024", " 2024-03-14 "} -> Some(14)
           [] x[2] \in {"2024-03-15", "2024/03/15", "15 Mar 2024", " 2024-03-15 "} -> Some(15)
           [] OTHER -> None

\* fnum: None -> 0, a number -> itself, "(n)" -> -n, "nb" -> 1000 n, "-" and junk -> 0.
fnum(x) ==
    IF x[1] = "num" THEN x[2]
    ELSE IF x[1] # "str" THEN 0
    ELSE CASE x[2] = "120" -> 120
           [] x[2] = "(30)" -> 0 - 30
           [] x[2] = "2" -> 2
           [] x[2] = "1b" -> 1000
           [] OTHER -> 0

IsNone(o) == o = None \/ o[1][1] = "null"

Truthy(x) == ~(x[1] = "null" \/ (x[1] = "str" /\ x[2] = "") \/ (x[1] = "num" /\ x[2] = 0)
               \/ (x[1] \in {"list", "dict"} /\ x[2] = <<>>))

OrNull(o) == IF o = None THEN Null ELSE o[1]

\* str(name or "ETF"); names are strings here.
NameOf(o) == IF ~IsNone(o) /\ Truthy(o[1]) /\ o[1][1] = "str" THEN o[1][2] ELSE "ETF"

\* parse_item_dict: <<record>> or None.
parse_item_dict(d) ==
    LET name == FirstPresent(d, NAME_KEYS)
        val0 == FirstPresent(d, NET_KEYS)
        inflow == FirstPresent(d, INFLOW_KEYS)
        outflow == FirstPresent(d, OUTFLOW_KEYS)
        split == IsNone(val0) /\ (~IsNone(inflow) \/ ~IsNone(outflow))
        net == IF split THEN fnum(OrNull(inflow)) - fnum(OrNull(outflow)) ELSE fnum(OrNull(val0))
    IN  IF IsNone(name) /\ IsNone(val0) /\ ~split THEN None
        ELSE Some([name |-> NameOf(name), net |-> net])

RECURSIVE ParseItems(_)
ParseItems(items) ==
    IF items = <<>> THEN <<>>
    ELSE (IF items[1][1] = "dict" THEN parse_item_dict(items[1]) ELSE None)
         \o ParseItems(Tail(items))

\* try_make_row: <<row>> or None. The first date key present decides the date; the
\* first item key holding a list decides the items.
try_make_row(obj) ==
    LET d_key == FirstPresent(obj, DATE_KEYS)
        d_val == IF d_key = None THEN None ELSE to_date(d_key[1])
        items == FirstList(obj, ITEM_KEYS)
        out == IF items = None THEN <<>> ELSE ParseItems(items[1][2])
    IN  IF d_val = None \/ items = None \/ out = <<>> THEN None
        ELSE Some([date |-> d_val[1], items |-> out])

\* walk: the rows in depth-first discovery order, a mapping before its values.
RECURSIVE walk(_), walk_all(_)
walk(x) ==
    IF x[1] = "dict" THEN try_make_row(x) \o walk_all([i \in 1..Len(x[2]) |-> x[2][i][2]])
    ELSE IF x[1] = "list" THEN walk_all(x[2])
    ELSE <<>>

walk_all(xs) == IF xs = <<>> THEN <<>> ELSE walk(xs[1]) \o walk_all(Tail(xs))

\* by_date.setdefault(r["date"], []).extend(r["items"])
extend_replace(by_date, r) ==
    [d \in (DOMAIN by_date) \cup {r.date} |-> IF d = r.date THEN r.items ELSE by_date[d]]

extend(by_date, r) ==
    [d \in (DOMAIN by_date) \cup {r.date} |->
        IF d = r.date
        THEN (IF d \in DOMAIN by_date THEN by_date[d] ELSE <<>>) \o r.items
        ELSE by_date[d]]

RECURSIVE group_rows(_, _)
group_rows(by_date, rows) ==
    IF rows = <<>> THEN by_date ELSE group_rows(extend(by_date, rows[1]), Tail(rows))

\* sorted(by_date.items())
RECURSIVE sorted_items(_, _)
sorted_items(by_date, keys) ==
    IF keys = {} THEN <<>>
    ELSE LET d == CHOOSE x \in keys : \A y \in keys : x <= y
         IN  <<[date |-> d, items |-> by_date[d]]>> \o sorted_items(by_date, keys \ {d})

pick_series(payload) ==
    LET by_date == group_rows([d \in {} |-> <<>>], walk(payload))
    IN  sorted_items(by_date, DOMAIN by_date)

\* --- payloads
Item1 == Dict(<< <<"ticker", Str("IBIT")>>, <<"net", Str("120")>> >>)

Item2 == Dict(<< <<"ticker", Str("FBTC")>>, <<"net", Str("(30)")>> >>)

Item3 == Dict(<< <<"name", Str("ETHA")>>, <<"inflow", Num(5)>>, <<"outflow", Str("2")>> >>)

Item4 == Dict(<< <<"note", Str("n/a")>> >>)

DateEntries ==
    { <<>>,
      << <<"date", Str("2024-03-14")>> >>,
      << <<"day", Str("2024/03/15")>> >>,
      << <<"tradingDay", Str("13 Mar 2024")>> >>,
      << <<"day", Str("2024-03-14")>>, <<"date", Str("soon")>> >> }

ItemEntries ==
    { << <<"items", List(<<Item1>>)>> >>,
      << <<"funds", List(<<Item2, Item3>>)>> >>,
      << <<"items", Str("none")>>, <<"rows", List(<<Item3, Num(7)>>)>> >>,
      << <<"data", List(<<Item4>>)>> >> }

Groups == { d \o i : d \in DateEntries, i \in ItemEntries }

GroupSeqs(n) == [1..n -> Groups]

\* {"data": {"list": [g1, ..., gn]}}
RECURSIVE DictAll(_)
DictAll(gs) == IF gs = <<>> THEN <<>> ELSE <<Dict(Head(gs))>> \o DictAll(Tail(gs))

Listed(gs) == Dict(<< <<"data", Dict(<< <<"list", List(DictAll(gs))>> >>)>> >>)

\* g1 with g2 nested under "inner", and so on: {..g1.., "inner": {..g2..}}
RECURSIVE Nested(_)
Nested(gs) ==
    IF Len(gs) = 1 THEN Dict(gs[1])
    ELSE Dict(Append(gs[1], <<"inner", Nested(Tail(gs))>>))

PickInit ==
    /\ \E n \in 0..MaxGroups : \E gs \in GroupSeqs(n) :
          \/ pPayload = Listed(gs)
          \/ n >= 1 /\ pPayload = Nested(gs)
    /\ pSeries = None
    /\ FlowIdle /\ ChartIdle /\ EmbedIdle /\ ParseIdle

PickSeries ==
    /\ pSeries = None
    /\ pSeries' = Some(pick_series(pPayload))
    /\ UNCHANGED pPayload
    /\ UNCHANGED <<flowVars, chartVars, embedVars, parseVars>>

PickNext == PickSeries

SpecPick == PickInit /\ [][PickNext]_vars

\* ------------------------------------------------------------------------
\* Claims about the normalizer (SpecPick)
\* ------------------------------------------------------------------------
RECURSIVE ItemsFor(_, _)
ItemsFor(rows, d) ==
    IF rows = <<>> THEN <<>>
    ELSE (IF rows[1].date = d THEN rows[1].items ELSE <<>>) \o ItemsFor(Tail(rows), d)

\* C9: the series pick_series returns holds at most one group per date, is sorted
\* strictly ascending by date, holds a group for every date a DayGroup was discovered
\* for, and each group's items are the items of the DayGroups discovered for its
\* date, concatenated in depth-first discovery order.
C9_MergedSeries ==
    pSeries # None =>
        LET series == pSeries[1]
            rows == walk(pPayload)
        IN  /\ \A i, j \in 1..Len(series) : i < j => series[i].date < series[j].date
            /\ { series[i].date : i \in 1..Len(series) } = { rows[k].date : k \in 1..Len(rows) }
            /\ \A i \in 1..Len(series) : series[i].items = ItemsFor(rows, series[i].date)

\* Two DayGroups of one date found at different places, after a group of a later date.
C9_Witness ==
    /\ pSeries # None
    /\ Len(walk(pPayload)) = 3
    /\ walk(pPayload)[1].date = 15
    /\ walk(pPayload)[2].date = 14 /\ walk(pPayload)[3].date = 14
    /\ walk(pPayload)[2].items # walk(pPayload)[3].items
    /\ Len(pSeries[1]) = 2

\* The mapping nodes of a payload tree, in depth-first order.
RECURSIVE MappingNodes(_), MappingNodesOf(_)
MappingNodes(x) ==
    IF x[1] = "dict" THEN <<x>> \o MappingNodesOf([i \in 1..Len(x[2]) |-> x[2][i][2]])
    ELSE IF x[1] = "list" THEN MappingNodesOf(x[2])
    ELSE <<>>

MappingNodesOf(xs) == IF xs = <<>> THEN <<>> ELSE MappingNodes(xs[1]) \o MappingNodesOf(Tail(xs))

\* The dates the node's date keys parse to.
ParsedDates(node) ==
    { to_date(Get(node, DATE_KEYS[i]))[1] :
        i \in { j \in 1..Len(DATE_KEYS) :
                  HasKey(node, DATE_KEYS[j]) /\ to_date(Get(node, DATE_KEYS[j])) # None } }

\* Some item key of the node holds a sequence with a mapping that converts to a record.
YieldsRecord(node) ==
    \E i \in 1..Len(ITEM_KEYS) :
        /\ HasKey(node, ITEM_KEYS[i])
        /\ Get(node, ITEM_KEYS[i])[1] = "list"
        /\ ParseItems(Get(node, ITEM_KEYS[i])[2]) # <<>>

\* C12 as claimed: every mapping node with some date key that parses and some item key
\* that yields a record contributes a DayGroup for that date to the series.
C12_Original ==
    pSeries # None =>
        \A n \in 1..Len(MappingNodes(pPayload)) :
            LET node == MappingNodes(pPayload)[n]
            IN  (ParsedDates(node) # {} /\ YieldsRecord(node)) =>
                    \E i \in 1..Len(pSeries[1]) : pSeries[1][i].date \in ParsedDates(node)

\* ========================================================================
\* sosovalue_api_etf_flow.py: build_embed on its own
\* ========================================================================
FlowNames == {"IBIT", "FBTC"}

\* Nets in $m: a zero, a tie in absolute value (-2, 2) and a smaller one.
FlowNets == {0 - 2, 0, 1, 2}

FlowRecs == [name : FlowNames, net : FlowNets]

\* int(os.getenv("SHOW_TOP_N", "24")): the default and the small caps that bite.
TopNs == {0 - 1, 0, 1, 2, SHOW_TOP_N}

EmbedInit ==
    /\ \E n \in 0..MaxFlows : eFlows \in [1..n -> FlowRecs]
    /\ eTopN \in TopNs
    /\ eEmbed = None
    /\ FlowIdle /\ ChartIdle /\ PickIdle /\ ParseIdle

BuildEmbed ==
    /\ eEmbed = None
    /\ eEmbed' = Some(build_embed("title", eFlows, eTopN))
    /\ UNCHANGED <<eFlows, eTopN>>
    /\ UNCHANGED <<flowVars, chartVars, pickVars, parseVars>>

EmbedNext == BuildEmbed

SpecEmbed == EmbedInit /\ [][EmbedNext]_vars

\* ------------------------------------------------------------------------
\* Claims about build_embed (SpecEmbed)
\* ------------------------------------------------------------------------
Built == eEmbed # None

ShownCount == IF eTopN >= 0 THEN Min(eTopN, Len(eFlows)) ELSE Max(0, Len(eFlows) + eTopN)

\* The place of record i when the list is ordered by descending |net|, ties in
\* list order.
Rank(i) ==
    1 + Cardinality({ j \in 1..Len(eFlows) :
                        \/ Abs(eFlows[j].net) > Abs(eFlows[i].net)
                        \/ Abs(eFlows[j].net) = Abs(eFlows[i].net) /\ j < i })

TotalAndColor ==
    /\ eEmbed[1].net = SumNet(eFlows)
    /\ eEmbed[1].color = (IF SumNet(eFlows) > 0 THEN "2ecc71"
                           ELSE IF SumNet(eFlows) < 0 THEN "e74c3c" ELSE "95a5a6")

Shows(f, r) == f.name = r.name /\ f.value = r.net

\* C10 as claimed: the fields are exactly the nonzero-net records (up to the cap), or
\* the first 6 records by position when every net is zero; the total is the sum over
\* all records and the color follows its sign.
C10_Original ==
    Built =>
        LET f == eEmbed[1].fields
            nz == SelectSeq(eFlows, NonZero)
        IN  /\ IF nz # <<>>
               THEN /\ Len(f) = Min(Max(eTopN, 0), Len(nz))
                    /\ \A k \in 1..Len(f) : f[k].value # 0
               ELSE /\ Len(f) = Min(6, Len(eFlows))
                    /\ \A k \in 1..Len(f) : Shows(f[k], eFlows[k])
            /\ TotalAndColor

\* C10: the fields are the records of the flow list, zero-net ones included, in
\* descending order of |net| with ties in list order, cut by the slice [:SHOW_TOP_N];
\* each field carries its record's name, net and sign mark; the total is the sum
\* over all records and the color follows its sign.
C10_Display ==
    Built =>
        LET f == eEmbed[1].fields
        IN  /\ Len(f) = ShownCount
            /\ \A i \in 1..Len(eFlows) :
                   Rank(i) <= ShownCount =>
                       /\ Shows(f[Rank(i)], eFlows[i])
                       /\ f[Rank(i)].mark = (IF eFlows[i].net > 0 THEN "green"
                                             ELSE IF eFlows[i].net < 0 THEN "red" ELSE "white")
            /\ TotalAndColor

\* A zero-net record listed first is shown, after the nonzero one, under the default cap.
C10_Witness ==
    /\ Built /\ eTopN = SHOW_TOP_N
    /\ Len(eFlows) = 2 /\ eFlows[1].net = 0 /\ eFlows[2].net < 0
    /\ Len(eEmbed[1].fields) = 2
    /\ eEmbed[1].fields[2].value = 0 /\ eEmbed[1].fields[2].name = eFlows[1].name
    /\ eEmbed[1].color = "e74c3c"

\* ========================================================================
\* Both scripts: what a run does with the JSON of an HTTP 200 answer
\* ========================================================================
\* d.get(k)
PyGet(d, k) == IF HasKey(d, k) THEN Get(d, k) ELSE Null

\* x or default
Or(x, default) == IF Truthy(x) THEN x ELSE default

Ok(v) == [exc |-> "", val |-> v]

Raise(e) == [exc |-> e, val |-> <<>>]

\* datetime.strptime(x, "%Y-%m-%d").date(): the day, TypeError for a value that is
\* not a string, ValueError for a string of another form.
strptime_ymd(x) ==
    IF x[1] # "str" THEN Raise("TypeError")
    ELSE CASE x[2] = "2024-03-13" -> Ok(13)
           [] x[2] = "2024-03-14" -> Ok(14)
           [] x[2] = "2024-03-15" -> Ok(15)
           [] OTHER -> Raise("ValueError")

\* float(x) for a value that is not None.
float(x) ==
    IF x[1] = "num" THEN Ok(x[2])
    ELSE IF x[1] # "str" THEN Raise("TypeError")
    ELSE CASE x[2] = "120" -> Ok(120)
           [] x[2] = "2" -> Ok(2)
           [] OTHER -> Raise("ValueError")

\* (payload.get("data") or {}), lines 243 and 255.
metrics_data(payload) ==
    IF payload[1] # "dict" THEN Raise("AttributeError")
    ELSE Ok(Or(PyGet(payload, "data"), Dict(<<>>)))

\* lines 258-259: rec.get("ticker") or rec.get("id") or rec.get("institute") or "ETF"
fund_name(rec) ==
    LET name == Or(PyGet(rec, "ticker"), Or(PyGet(rec, "id"), Or(PyGet(rec, "institute"), Str("ETF"))))
    IN  IF name[1] = "str" THEN name[2] ELSE "?"

\* The loop of lines 257-264 over the elements still to visit.
RECURSIVE fund_loop(_, _)
fund_loop(elems, out) ==
    IF elems = <<>> THEN Ok(out)
    ELSE LET rec == elems[1]
         IN  IF rec[1] # "dict" THEN Raise("AttributeError")
             ELSE LET dn == Or(PyGet(rec, "dailyNetInflow"), Dict(<<>>))
                  IN  IF dn[1] # "dict" THEN Raise("AttributeError")
                      ELSE IF PyGet(dn, "status")[1] = "num" /\ PyGet(dn, "status")[2] = 3 THEN fund_loop(Tail(elems), out)
                      ELSE fund_loop(Tail(elems),
                               Append(out, [name |-> fund_name(rec), net |-> fnum(PyGet(dn, "value"))]))

\* What "for rec in lst" visits: the elements of a list, the keys of a mapping, the
\* characters of a string; a number is not iterable.
iterate(lst) ==
    CASE lst[1] = "list" -> Ok(lst[2])
      [] lst[1] = "dict" -> Ok([i \in 1..Len(lst[2]) |-> Str(lst[2][i][1])])
      [] lst[1] = "str" -> Ok(<<Str("c")>>)
      [] OTHER -> Raise("TypeError")

\* parse_funds_from_metrics on any JSON value.
parse_funds_json(payload) ==
    LET data == metrics_data(payload)
    IN  IF data.exc # "" THEN data
        ELSE IF data.val[1] # "dict" THEN Raise("AttributeError")
        ELSE LET it == iterate(Or(PyGet(data.val, "list"), List(<<>>)))
             IN  IF it.exc # "" THEN it ELSE fund_loop(it.val, <<>>)

\* parse_aggregate_from_metrics on any JSON value.
parse_aggregate_json(payload) ==
    LET data == metrics_data(payload)
    IN  IF data.exc # "" THEN data
        ELSE IF data.val[1] # "dict" THEN Raise("AttributeError")
        ELSE LET dn == Or(PyGet(data.val, "dailyNetInflow"), Dict(<<>>))
             IN  IF dn[1] # "dict" THEN Raise("AttributeError")
                 ELSE LET lu == PyGet(dn, "lastUpdateDate")
                          day == IF Truthy(lu) THEN strptime_ymd(lu) ELSE Ok(0)
                      IN  IF day.exc # "" THEN day
                          ELSE Ok([day |-> IF Truthy(lu) THEN Some(day.val) ELSE None,
                                   net_musd |-> fnum(PyGet(dn, "value")) \div 1000000])

\* An exception of run_one is not caught in main; __main__ prints the traceback
\* and exits 1 (lines 349-354). The chart script has no handler at all.
RunResult(script, exc, outcome) ==
    [script |-> script, exc |-> exc, outcome |-> IF exc # "" THEN "raised" ELSE outcome,
     exit |-> IF exc # "" THEN Some(1) ELSE None]

\* run_one, lines 279-295, on any JSON value (FORCE_SEND off).
run_one_json(payload, yday) ==
    LET items == parse_funds_json(payload)
        agg == parse_aggregate_json(payload)
    IN  IF items.exc # "" THEN RunResult("flow", items.exc, "")
        ELSE IF items.val # <<>> THEN RunResult("flow", "", "embed")
        ELSE IF agg.exc # "" THEN RunResult("flow", agg.exc, "")
        ELSE IF agg.val.day = Some(yday) THEN RunResult("flow", "", "embed")
        ELSE RunResult("flow", "", "no data yet")

\* for k in keys: v = d.get(k); if isinstance(v, list): return v
RECURSIVE first_list_of(_, _)
first_list_of(d, keys) ==
    IF keys = <<>> THEN None
    ELSE IF PyGet(d, keys[1])[1] = "list" THEN Some(PyGet(d, keys[1]))
    ELSE first_list_of(d, Tail(keys))

HIST_KEYS == <<"list", "records", "items", "rows">>

\* _extract_list on any JSON value: the elements of the list it finds, else [].
extract_list_json(payload) ==
    IF payload[1] = "list" THEN payload[2]
    ELSE IF payload[1] # "dict" THEN <<>>
    ELSE LET data == PyGet(payload, "data")
             inner == IF data[1] = "dict" THEN first_list_of(data, HIST_KEYS) ELSE None
             outer == first_list_of(payload, HIST_KEYS)
         IN  IF data[1] = "list" THEN data[2]
             ELSE IF inner # None THEN inner[1][2]
             ELSE IF outer # None THEN outer[1][2]
             ELSE <<>>

\* The loop of _last_hist_date, lines 91-94 (and 203-206): the dates so far.
RECURSIVE last_date_loop(_, _)
last_date_loop(elems, dates) ==
    IF elems = <<>> THEN Ok(dates)
    ELSE IF elems[1][1] # "dict" THEN Raise("AttributeError")
    ELSE LET d == PyGet(elems[1], "date")
             parsed == IF Truthy(d) THEN strptime_ymd(d) ELSE Ok(0)
         IN  IF parsed.exc # "" THEN parsed
             ELSE last_date_loop(Tail(elems), IF Truthy(d) THEN dates \cup {parsed.val} ELSE dates)

\* _last_hist_date on any JSON value: <<max date>> or None.
last_hist_date_json(payload) ==
    LET ds == last_date_loop(extract_list_json(payload), {})
    IN  IF ds.exc # "" THEN ds
        ELSE Ok(IF ds.val = {} THEN None ELSE Some(MaxOf(ds.val)))

\* The loop of fetch_history, lines 120-130: the number of points so far.
RECURSIVE history_loop(_, _)
history_loop(rows, n) ==
    IF rows = <<>> THEN Ok(n)
    ELSE LET row == rows[1]
         IN  IF row[1] # "dict" THEN history_loop(Tail(rows), n)
             ELSE LET d == PyGet(row, "date")
                      cum == PyGet(row, "cumNetInflow")
                      day == PyGet(row, "totalNetInflow")
                  IN  IF ~Truthy(d) \/ cum[1] = "null" \/ day[1] = "null" THEN history_loop(Tail(rows), n)
                      ELSE IF strptime_ymd(d).exc # "" THEN strptime_ymd(d)
                      ELSE IF float(cum).exc # "" THEN float(cum)
                      ELSE IF float(day).exc # "" THEN float(day)
                      ELSE history_loop(Tail(rows), n + 1)

fetch_history_json(payload) == history_loop(extract_list_json(payload), 0)

\* main of the chart script, lines 266-273, every history call answering `payload`.
chart_run_json(payload, yday) ==
    LET ld == last_hist_date_json(payload)
        hist == fetch_history_json(payload)
    IN  IF ld.exc # "" THEN RunResult("chart", ld.exc, "")
        ELSE IF ld.val = None \/ ld.val[1] < yday THEN RunResult("chart", "", "no data yet")
        ELSE IF hist.exc # "" THEN RunResult("chart", hist.exc, "")
        ELSE RunResult("chart", "", "history")

\* --- payloads: well-formed ones and the malformations of each level
Inflow(day, v) == Dict(<< <<"lastUpdateDate", day>>, <<"value", v>> >>)

DailyNetInflows ==
    { Inflow(Str("2024-03-14"), Num(7000000)), Inflow(Str("2024-03-15"), Str("n/a")),
      Inflow(Str("soon"), Num(7000000)), Inflow(Num(20240314), Num(7000000)),
      Inflow(Null, Null), Dict(<<>>), Null, Num(5), List(<<Num(1)>>) }

Fund(name, dn) == Dict(<< <<"ticker", Str(name)>>, <<"dailyNetInflow", dn>> >>)

FundLists ==
    { Null, List(<<>>),
      List(<<Fund("IBIT", Dict(<< <<"status", Num(1)>>, <<"value", Num(5000000)>> >>))>>),
      List(<<Fund("IBIT", Dict(<< <<"status", Num(3)>>, <<"value", Null>> >>))>>),
      List(<<Fund("IBIT", Null), Dict(<<>>)>>),
      List(<<Fund("IBIT", Num(5))>>),
      List(<<Num(7)>>), List(<<Null>>), List(<<Str("IBIT")>>),
      Dict(<< <<"IBIT", Num(5)>> >>), Str("none"), Num(3) }

MetricsPayloads ==
    { Dict(<< <<"data", Dict(<< <<"list", l>>, <<"dailyNetInflow", dn>> >>)>> >>) :
        l \in FundLists, dn \in DailyNetInflows }
    \cup { Dict(<< <<"data", x>> >>) : x \in {Null, Str("error"), List(<<Num(1)>>)} }
    \cup { Dict(<< <<"code", Num(1)>> >>), List(<<>>), Null, Str("ok") }

Row(d, cum, day) == Dict(<< <<"date", d>>, <<"cumNetInflow", cum>>, <<"totalNetInflow", day>> >>)

HistoryRows ==
    { Row(Str("2024-03-14"), Num(120), Num(2)), Row(Str("2024-03-15"), Str("120"), Str("2")),
      Row(Str("2024-03-15"), Null, Num(2)), Row(Str("2024-03-15"), Str("n/a"), Num(2)),
      Row(Str("2024-03-15"), List(<<>>), Num(2)), Row(Str("2024/03/15"), Num(120), Num(2)),
      Row(Num(20240315), Num(120), Num(2)), Row(Null, Num(120), Num(2)),
      Dict(<<>>), Num(7), Null, Str("row") }

HistoryLists == {<<>>} \cup { <<r>> : r \in HistoryRows }
                \cup { <<Row(Str("2024-03-14"), Num(120), Num(2)), r>> : r \in HistoryRows }

HistoryPayloads ==
    { List(rows) : rows \in HistoryLists }
    \cup { Dict(<< <<"data", List(rows)>> >>) : rows \in HistoryLists }
    \cup { Dict(<< <<"data", Dict(<< <<"list", List(rows)>> >>)>> >>) : rows \in HistoryLists }
    \cup { Dict(<< <<"data", Str("error")>>, <<"rows", List(rows)>> >>) : rows \in HistoryLists }
    \cup { Dict(<< <<"data", Dict(<< <<"series", List(<<Num(7)>>)>> >>)>> >>), Null, Num(0) }

ParseDays == {14, 15}

ParseInit ==
    /\ \E p \in MetricsPayloads \cup HistoryPayloads : mPayload = p
    /\ mYday \in ParseDays
    /\ mRes = None
    /\ FlowIdle /\ ChartIdle /\ PickIdle /\ EmbedIdle

\* The flow sentry receives the payload for an asset: run_one and what main does
\* with an exception from it.
ParseMetrics ==
    /\ mRes = None
    /\ mRes' = Some(run_one_json(mPayload, mYday))
    /\ UNCHANGED <<mPayload, mYday>>
    /\ UNCHANGED <<flowVars, chartVars, pickVars, embedVars>>

\* The chart script receives the payload from the history endpoint.
ParseHistory ==
    /\ mRes = None
    /\ mRes' = Some(chart_run_json(mPayload, mYday))
    /\ UNCHANGED <<mPayload, mYday>>
    /\ UNCHANGED <<flowVars, chartVars, pickVars, embedVars>>

ParseNext ==
    \/ ParseMetrics
    \/ ParseHistory

SpecParse == ParseInit /\ [][ParseNext]_vars

\* ------------------------------------------------------------------------
\* Claims about malformed payloads (SpecParse)
\* ------------------------------------------------------------------------
\* C11 as claimed: whatever JSON value an HTTP 200 answer carries, the run raises
\* nothing to the top level and does not exit non-zero.
C11_Original == mRes # None => (mRes[1].exc = "" /\ mRes[1].exit # Some(1))

====
